---- MODULE Spec2Model ----
(***************************************************************************)
(* Monte Carlo pricing of a European call option: the serial estimators    *)
(* of monte_carlo.py and the MPI estimator of mpi_monte_carlo.py.          *)
(*                                                                         *)
(* One behaviour is one process group.  program = "mpi_monte_carlo" is one *)
(* mpirun of `size` ranks, every rank executing                            *)
(* monte_carlo_european_call_mpi with the same arguments; program =        *)
(* "monte_carlo" is one Python process that calls the serial estimators    *)
(* one after the other on the process-wide numpy generator.                *)
(*                                                                         *)
(* Reals are fixed-point integers: prices and payoffs count eighths        *)
(* (ExpHalf(0) = 8 stands for 1.0).  A quotient is kept as the pair        *)
(* <<numerator, denominator>>, and a standard error by its square.         *)
(***************************************************************************)
EXTENDS Integers, Sequences, FiniteSets, TLC

\* ------------------------------------------------------------------ bounds
MaxWorkers == 3
MaxSamples == 4
MaxSeed == 1
MaxCalls == 2

\* Argument values: each parameter has its boundary value and a legal value.
S0Values == {0, 2}
KValues == {0, 1, 3}
TValues == {0, 1}
RValues == {-1, 0, 1}
SigmaValues == {0, 1}
SampleCounts == -1..MaxSamples
Seeds == 0..MaxSeed
PairCounts == 0..MaxSamples

VARIABLES
    program,        \* which script the process group runs
    S0, K, T, r, sigma,   \* option parameters (args.S0 ... args.sigma)
    n_samples, seed,      \* arguments of the MPI run
    size,           \* comm.Get_size()
    root_wanted,    \* the rank the caller would like as root; no argument carries it
    pc,             \* per rank: position in monte_carlo_european_call_mpi
    error,          \* per rank: the exception raised, NoError if none
    variance_payoff, \* per rank: the root's variance_payoff (line 145), in a
                    \* 1-tuple; NoValue until it is computed
    crashed,        \* the ranks whose process died before entering the second barrier
    rng,            \* per process: state of the process-wide np.random generator
    start_time, elapsed_time,
    local_n, local_seed, local_payoffs,
    local_sum, local_sum_sq, local_count,
    reduce_acc,     \* per reduction: the values combined so far, in arrival order
    reduce_in,      \* per reduction: the ranks whose value has been combined
    global_sum, global_sum_sq, global_count,
    barrier_in,     \* per barrier (1, 2): the ranks that have entered it
    result,         \* per rank: the tuple the function returned
    now,            \* per process: time.perf_counter(), a logical clock that
                    \* advances with every step the process takes
    calls,          \* serial process: number of estimator calls made
    last,           \* serial process: the most recent estimator call, with the
                    \* generator state it found
    cli,            \* serial process: what main was asked for and what it printed
    avs             \* serial process: the most recent direct call of
                    \* antithetic_variates_samples

vars == <<program, S0, K, T, r, sigma, n_samples, seed, size, root_wanted,
          pc, error, crashed, variance_payoff, rng, start_time, elapsed_time, local_n, local_seed,
          local_payoffs, local_sum, local_sum_sq, local_count, reduce_acc,
          reduce_in, global_sum, global_sum_sq, global_count, barrier_in,
          result, now, calls, last, cli, avs>>

\* ------------------------------------------------------------ basic values
None == -1
NoValue == <<>>
NoError == "ok"
Ranks == 0..(size - 1)
Max(a, b) == IF a >= b THEN a ELSE b

RECURSIVE Sum(_)
Sum(s) == IF s = <<>> THEN 0 ELSE Head(s) + Sum(Tail(s))

Squares(s) == [i \in 1..Len(s) |-> s[i] * s[i]]

RECURSIVE SumOver(_, _)
SumOver(f, ks) ==
    IF ks = {} THEN 0
    ELSE LET k == CHOOSE x \in ks : TRUE IN f[k] + SumOver(f, ks \ {k})

\* --------------------------------------------------------------- validation
\* Variant: the volatility is not checked.
ValidateOptionParamsNoSigma(s0, strike, t, rate, vol) ==
    IF ~(s0 > 0) THEN "S0 must be positive"
    ELSE IF ~(strike > 0) THEN "K must be positive"
    ELSE IF ~(t > 0) THEN "T must be positive"
    ELSE IF ~(rate >= 0) THEN "r must be non-negative"
    ELSE "ok"

\* option_pricing.py lines 31-35.
ValidateOptionParams(s0, strike, t, rate, vol) ==
    IF ~(s0 > 0) THEN "S0 must be positive"
    ELSE IF ~(strike > 0) THEN "K must be positive"
    ELSE IF ~(t > 0) THEN "T must be positive"
    ELSE IF ~(rate >= 0) THEN "r must be non-negative"
    ELSE IF ~(vol > 0) THEN "sigma must be positive"
    ELSE NoError

\* Variant: zero samples are accepted.
ValidateSamplesNonNegative(n) ==
    IF ~(n >= 0) THEN "Number of samples must be positive" ELSE "ok"

\* monte_carlo.py lines 63 and 128, mpi_monte_carlo.py line 85.
ValidateSamples(n) ==
    IF ~(n > 0) THEN "Number of samples must be positive" ELSE NoError

ValidateEven(n) ==
    IF ~(n % 2 = 0) THEN "Number of samples must be even" ELSE NoError

\* Variant: the number of samples is not compared with the number of ranks.
ValidateRanksSkipped(n, sz) == NoError

ValidateRanks(n, sz) ==
    IF ~(n >= sz) THEN "n_samples must be >= num_ranks" ELSE NoError

\* The first assertion that fails, in program order.
FirstError(checks) ==
    IF \E i \in 1..Len(checks) : checks[i] # NoError
    THEN checks[CHOOSE i \in 1..Len(checks) :
                    /\ checks[i] # NoError
                    /\ \A j \in 1..(i - 1) : checks[j] = NoError]
    ELSE NoError

ParamErrors ==
    {"S0 must be positive", "K must be positive", "T must be positive",
     "r must be non-negative", "sigma must be positive"}

SampleErrors ==
    {"Number of samples must be positive", "Number of samples must be even",
     "n_samples must be >= num_ranks"}

\* ------------------------------------------------- generator and sampling
\* The i-th draw (from 0) of the stream np.random.seed(sd) starts: a fixed
\* pseudo-random function of (sd, i) into {-1, 0, 1}.
Normal(sd, i) == (((sd + 1) * (i + 1) + i * i) % 3) - 1

Unseeded == [seed |-> None, pos |-> 0]
Seeded(sd) == [seed |-> sd, pos |-> 0]
\* Variant: seeding a generator again with the seed it has consumes a draw.
NpRandomSeedConsuming(g, sd) ==
    [seed |-> sd, pos |-> IF g.seed = sd THEN 1 ELSE 0]

\* Variant: np.random.seed only seeds a generator that was never seeded.
NpRandomSeedKeep(g, sd) == IF g.seed = None THEN Seeded(sd) ELSE g

\* np.random.seed(sd): the process-wide generator restarts the stream of sd.
NpRandomSeed(g, sd) == Seeded(sd)

\* A generator that was never seeded seeds itself from OS entropy at its
\* first use; ent is the stream that entropy selected.
SelfSeeded(g, ent) == IF g.seed = None THEN Seeded(ent) ELSE g

Draw(g, n) == [i \in 1..n |-> Normal(g.seed, g.pos + i - 1)]
Advance(g, n) == [g EXCEPT !.pos = @ + n]

\* exp(h / 2) in eighths, h in -4..4.
ExpTable == <<1, 2, 3, 5, 8, 13, 22, 36, 59>>
ExpHalf(h) == ExpTable[Max(-4, IF h > 4 THEN 4 ELSE h) + 5]
SqrtInt(t) == CHOOSE s \in 0..t : s * s <= t /\ (s + 1) * (s + 1) > t

\* S_T = S0 * exp((r - 0.5*sigma^2)*T + sigma*sqrt(T)*Z), in eighths.
TerminalPrice(s0, t, rate, vol, z) ==
    s0 * ExpHalf((2 * rate - vol * vol) * t + 2 * vol * SqrtInt(t) * z)

\* max(S_T - K, 0), in eighths.
CallPayoff(st, strike) == Max(st - ExpHalf(0) * strike, 0)

\* Variant: each payoff is discounted as it is computed.
PayoffsDiscounted(s0, strike, t, rate, vol, Z) ==
    [i \in 1..Len(Z) |->
        ExpHalf(-2 * rate * t) * CallPayoff(TerminalPrice(s0, t, rate, vol, Z[i]), strike)]

Payoffs(s0, strike, t, rate, vol, Z) ==
    [i \in 1..Len(Z) |-> CallPayoff(TerminalPrice(s0, t, rate, vol, Z[i]), strike)]

\* exp(-r*T), in eighths.
DiscountFactor(rate, t) == ExpHalf(-2 * rate * t)

\* --------------------------------------------------------------- MPI path
\* Variants: the remainder dropped; the remainder given to the highest ranks.
LocalNFloorOnly(n, sz, rank) == n \div sz

LocalNRemainderLast(n, sz, rank) ==
    (n \div sz) + (IF rank >= sz - (n % sz) THEN 1 ELSE 0)

\* Lines 93-98.
LocalN(n, sz, rank) ==
    (n \div sz) + (IF rank < n % sz THEN 1 ELSE 0)

\* Variant: the offset of the seed is the number of ranks that have
\* already contributed to the first reduction.
LocalSeedByArrival(sd, rank) == sd + Cardinality(reduce_in["sum"])

\* Variant: ranks are numbered from one when the seed is derived.
LocalSeedOneBased(sd, rank) == sd + rank + 1

\* Variant: every rank seeds with the base seed.
LocalSeedShared(sd, rank) == sd

\* Line 102.
LocalSeed(sd, rank) == sd + rank

\* Variant: the incoming value replaces what was combined before.
ReduceOpOverwrite(a, b) == b

\* op=MPI.SUM, lines 129-131.
ReduceOp(a, b) == a + b

\* Variant: the receiving rank follows the workload.
ReduceRootByWorkload == n_samples % size

\* root=0, lines 129-131.
ReduceRoot == 0

\* Variant: every rank takes the finalizing branch.
IsRootAlways(rank) == TRUE

\* Line 138.
IsRoot(rank) == rank = 0

\* Variant: the barrier opens as soon as one rank has entered.
BarrierReleasedEarly(entered) == entered # {}

\* Variant: the barrier waits for one participant more than there are ranks.
BarrierReleasedOneMore(entered) == Cardinality(entered) > size

\* comm.Barrier() returns once every rank of the communicator has entered.
BarrierReleased(entered) == entered = Ranks

\* a / b in floating point: the representable value nearest to the
\* quotient, ties to even.  The representable values of the model are the
\* whole multiples of its unit (eighths, and sixty-fourths for squares).
FloatDiv(a, b) ==
    LET q == a \div b
        rem == a % b
    IN IF 2 * rem < b THEN q
       ELSE IF 2 * rem > b THEN q + 1
       ELSE IF q % 2 = 0 THEN q ELSE q + 1

\* Lines 141-145: mean_payoff = global_sum / global_count, mean_payoff_sq =
\* global_sum_sq / global_count, variance_payoff = mean_payoff_sq -
\* mean_payoff**2, each quotient rounded as the division rounds it.
VariancePayoff(gsum, gsum_sq, gcount) ==
    LET mean_payoff == FloatDiv(gsum, gcount)
        mean_payoff_sq == FloatDiv(gsum_sq, gcount)
    IN mean_payoff_sq - mean_payoff * mean_payoff

MpiPrice(disc, gsum, gcount) == <<disc * gsum, gcount>>

\* (discount * sqrt(sum_sq/count - (sum/count)^2) / sqrt(count))^2
MpiStdErrSq(disc, gsum, gsum_sq, gcount) ==
    <<disc * disc * (gcount * gsum_sq - gsum * gsum), gcount * gcount * gcount>>

NotReturned ==
    [returned |-> FALSE, option_price |-> NoValue, standard_error |-> NoValue,
     elapsed_time |-> None, rank |-> None]

Reductions == {"sum", "sum_sq", "count"}

MpiLocals == <<start_time, elapsed_time, local_n, local_seed, local_payoffs,
               local_sum, local_sum_sq, local_count>>
MpiGlobals == <<global_sum, global_sum_sq, global_count>>
Arguments == <<program, S0, K, T, r, sigma, n_samples, seed, size, root_wanted>>
Serial == <<calls, last, cli, avs>>

\* Variant: the rank takes its own rank plus one for the number of ranks.
GetSizeFromRank(k) == k + 1

\* Line 81: comm.Get_size() as rank k sees it.
GetSize(k) == size

\* Lines 83-89: the assertions, then the call of the first Barrier.
Validate(k) ==
    /\ program = "mpi_monte_carlo"
    /\ k \notin crashed
    /\ pc[k] = "validate"
    /\ LET e == FirstError(<<ValidateOptionParams(S0, K, T, r, sigma),
                             ValidateSamples(n_samples),
                             ValidateRanks(n_samples, GetSize(k))>>)
       IN IF e # NoError
          THEN /\ pc' = [pc EXCEPT ![k] = "failed"]
               /\ error' = [error EXCEPT ![k] = e]
               /\ UNCHANGED barrier_in
          ELSE /\ pc' = [pc EXCEPT ![k] = "barrier1"]
               /\ barrier_in' = [barrier_in EXCEPT ![1] = @ \cup {k}]
               /\ UNCHANGED error
    /\ now' = [now EXCEPT ![k] = @ + 1]
    /\ UNCHANGED <<Arguments, crashed, variance_payoff, rng, MpiLocals, reduce_acc, reduce_in, MpiGlobals,
                   result, Serial>>

\* Lines 89-90: Barrier returns, the timer starts.
BarrierOneExit(k) ==
    /\ program = "mpi_monte_carlo"
    /\ k \notin crashed
    /\ pc[k] = "barrier1"
    /\ BarrierReleased(barrier_in[1])
    /\ start_time' = [start_time EXCEPT ![k] = now[k]]
    /\ pc' = [pc EXCEPT ![k] = "sample"]
    /\ now' = [now EXCEPT ![k] = @ + 1]
    /\ UNCHANGED <<Arguments, crashed, variance_payoff, error, rng, elapsed_time, local_n, local_seed,
                   local_payoffs, local_sum, local_sum_sq, local_count,
                   reduce_acc, reduce_in, MpiGlobals, barrier_in, result, Serial>>

\* Lines 92-125: shard size, seeding, sampling, local statistics.
Sample(k) ==
    /\ program = "mpi_monte_carlo"
    /\ k \notin crashed
    /\ pc[k] = "sample"
    /\ LET n == LocalN(n_samples, size, k)
           s == LocalSeed(seed, k)
           Z == Draw(Seeded(s), n)
           p == Payoffs(S0, K, T, r, sigma, Z)
       IN /\ local_n' = [local_n EXCEPT ![k] = n]
          /\ local_seed' = [local_seed EXCEPT ![k] = s]
          /\ rng' = [rng EXCEPT ![k] = Advance(Seeded(s), n)]
          /\ local_payoffs' = [local_payoffs EXCEPT ![k] = <<p>>]
          /\ local_sum' = [local_sum EXCEPT ![k] = Sum(p)]
          /\ local_sum_sq' = [local_sum_sq EXCEPT ![k] = Sum(Squares(p))]
          /\ local_count' = [local_count EXCEPT ![k] = n]
    /\ pc' = [pc EXCEPT ![k] = "reduce_sum"]
    /\ now' = [now EXCEPT ![k] = @ + 1]
    /\ UNCHANGED <<Arguments, crashed, variance_payoff, error, start_time, elapsed_time, reduce_acc,
                   reduce_in, MpiGlobals, barrier_in, result, Serial>>

\* Variant: only the root takes part in a reduction.
ContributeRootOnly(k, field, value) ==
    IF IsRoot(k)
    THEN /\ reduce_acc' = [reduce_acc EXCEPT ![field] = ReduceOp(@, value)]
         /\ reduce_in' = [reduce_in EXCEPT ![field] = @ \cup {k}]
    ELSE UNCHANGED <<reduce_acc, reduce_in>>

\* comm.reduce(value, op=MPI.SUM, root=0) as rank k calls it: the value is
\* combined into the reduction; a non-root rank returns None at once, the
\* root waits for the other ranks.
Contribute(k, field, value) ==
    /\ reduce_acc' = [reduce_acc EXCEPT ![field] = ReduceOp(@, value)]
    /\ reduce_in' = [reduce_in EXCEPT ![field] = @ \cup {k}]

\* Variant: the root takes what has been combined when it arrives.
ReduceCompleteEarly(field) == ReduceRoot \in reduce_in[field]

\* comm.reduce returns on the root once every rank's value is combined.
ReduceComplete(field) == reduce_in[field] = Ranks

\* Line 129.
ReduceSum(k) ==
    /\ program = "mpi_monte_carlo"
    /\ k \notin crashed
    /\ pc[k] = "reduce_sum"
    /\ Contribute(k, "sum", local_sum[k])
    /\ pc' = [pc EXCEPT ![k] = IF k = ReduceRoot THEN "recv_sum" ELSE "reduce_sum_sq"]
    /\ now' = [now EXCEPT ![k] = @ + 1]
    /\ UNCHANGED <<Arguments, crashed, variance_payoff, error, rng, MpiLocals, MpiGlobals, barrier_in,
                   result, Serial>>

RootRecvSum(k) ==
    /\ program = "mpi_monte_carlo"
    /\ k \notin crashed
    /\ pc[k] = "recv_sum"
    /\ ReduceComplete("sum")
    /\ global_sum' = [global_sum EXCEPT ![k] = reduce_acc["sum"]]
    /\ pc' = [pc EXCEPT ![k] = "reduce_sum_sq"]
    /\ now' = [now EXCEPT ![k] = @ + 1]
    /\ UNCHANGED <<Arguments, crashed, variance_payoff, error, rng, MpiLocals, reduce_acc, reduce_in,
                   global_sum_sq, global_count, barrier_in, result, Serial>>

\* Line 130.
ReduceSumSq(k) ==
    /\ program = "mpi_monte_carlo"
    /\ k \notin crashed
    /\ pc[k] = "reduce_sum_sq"
    /\ Contribute(k, "sum_sq", local_sum_sq[k])
    /\ pc' = [pc EXCEPT ![k] = IF k = ReduceRoot THEN "recv_sum_sq" ELSE "reduce_count"]
    /\ now' = [now EXCEPT ![k] = @ + 1]
    /\ UNCHANGED <<Arguments, crashed, variance_payoff, error, rng, MpiLocals, MpiGlobals, barrier_in,
                   result, Serial>>

RootRecvSumSq(k) ==
    /\ program = "mpi_monte_carlo"
    /\ k \notin crashed
    /\ pc[k] = "recv_sum_sq"
    /\ ReduceComplete("sum_sq")
    /\ global_sum_sq' = [global_sum_sq EXCEPT ![k] = reduce_acc["sum_sq"]]
    /\ pc' = [pc EXCEPT ![k] = "reduce_count"]
    /\ now' = [now EXCEPT ![k] = @ + 1]
    /\ UNCHANGED <<Arguments, crashed, variance_payoff, error, rng, MpiLocals, reduce_acc, reduce_in,
                   global_sum, global_count, barrier_in, result, Serial>>

\* Lines 131-134: the third reduce; a non-root rank goes on to call the
\* second Barrier.
ReduceCount(k) ==
    /\ program = "mpi_monte_carlo"
    /\ k \notin crashed
    /\ pc[k] = "reduce_count"
    /\ Contribute(k, "count", local_count[k])
    /\ IF k = ReduceRoot
       THEN /\ pc' = [pc EXCEPT ![k] = "recv_count"]
            /\ UNCHANGED barrier_in
       ELSE /\ pc' = [pc EXCEPT ![k] = "barrier2"]
            /\ barrier_in' = [barrier_in EXCEPT ![2] = @ \cup {k}]
    /\ now' = [now EXCEPT ![k] = @ + 1]
    /\ UNCHANGED <<Arguments, crashed, variance_payoff, error, rng, MpiLocals, MpiGlobals, result, Serial>>

\* Lines 131-134 on the root: the reduce returns, the root calls Barrier.
RootRecvCount(k) ==
    /\ program = "mpi_monte_carlo"
    /\ k \notin crashed
    /\ pc[k] = "recv_count"
    /\ ReduceComplete("count")
    /\ global_count' = [global_count EXCEPT ![k] = reduce_acc["count"]]
    /\ pc' = [pc EXCEPT ![k] = "barrier2"]
    /\ barrier_in' = [barrier_in EXCEPT ![2] = @ \cup {k}]
    /\ now' = [now EXCEPT ![k] = @ + 1]
    /\ UNCHANGED <<Arguments, crashed, variance_payoff, error, rng, MpiLocals, reduce_acc, reduce_in,
                   global_sum, global_sum_sq, result, Serial>>

\* Lines 134-135: the second Barrier returns, the timer is read.
BarrierTwoExit(k) ==
    /\ program = "mpi_monte_carlo"
    /\ k \notin crashed
    /\ pc[k] = "barrier2"
    /\ BarrierReleased(barrier_in[2])
    /\ elapsed_time' = [elapsed_time EXCEPT ![k] = now[k] - start_time[k]]
    /\ pc' = [pc EXCEPT ![k] = "finalize"]
    /\ now' = [now EXCEPT ![k] = @ + 1]
    /\ UNCHANGED <<Arguments, crashed, variance_payoff, error, rng, start_time, local_n, local_seed,
                   local_payoffs, local_sum, local_sum_sq, local_count,
                   reduce_acc, reduce_in, MpiGlobals, barrier_in, result, Serial>>

\* Lines 137-160: the root computes price and standard error; the others
\* return None.  Arithmetic on a None statistic raises TypeError.
Finalize(k) ==
    /\ program = "mpi_monte_carlo"
    /\ k \notin crashed
    /\ pc[k] = "finalize"
    /\ IF IsRoot(k)
       THEN IF global_sum[k] = None \/ global_sum_sq[k] = None \/ global_count[k] = None
            THEN /\ pc' = [pc EXCEPT ![k] = "failed"]
                 /\ error' = [error EXCEPT ![k] = "TypeError"]
                 /\ UNCHANGED <<result, variance_payoff>>
            ELSE /\ pc' = [pc EXCEPT ![k] = "done"]
                 /\ result' = [result EXCEPT ![k] =
                        [returned |-> TRUE,
                         option_price |->
                             MpiPrice(DiscountFactor(r, T), global_sum[k], global_count[k]),
                         standard_error |->
                             MpiStdErrSq(DiscountFactor(r, T), global_sum[k],
                                         global_sum_sq[k], global_count[k]),
                         elapsed_time |-> elapsed_time[k],
                         rank |-> k]]
                 /\ variance_payoff' = [variance_payoff EXCEPT ![k] =
                        <<VariancePayoff(global_sum[k], global_sum_sq[k],
                                         global_count[k])>>]
                 /\ UNCHANGED error
       ELSE /\ pc' = [pc EXCEPT ![k] = "done"]
            /\ result' = [result EXCEPT ![k] =
                   [returned |-> TRUE, option_price |-> NoValue,
                    standard_error |-> NoValue,
                    elapsed_time |-> elapsed_time[k], rank |-> k]]
            /\ UNCHANGED <<error, variance_payoff>>
    /\ now' = [now EXCEPT ![k] = @ + 1]
    /\ UNCHANGED <<Arguments, crashed, rng, MpiLocals, reduce_acc, reduce_in, MpiGlobals,
                   barrier_in, Serial>>

\* The process of rank k dies (a signal, an exception outside the estimator,
\* a node failure) at some point before it enters the second barrier.  A run
\* suffers one such failure: the ranks left are then blocked for good, and a
\* further death changes nothing for them.
Crash(k) ==
    /\ program = "mpi_monte_carlo"
    /\ crashed = {}
    /\ k \notin barrier_in[2]
    /\ pc[k] # "failed"
    /\ crashed' = crashed \cup {k}
    /\ UNCHANGED <<Arguments, variance_payoff, pc, error, rng, MpiLocals, reduce_acc,
                   reduce_in,
                   MpiGlobals, barrier_in, result, now, Serial>>

\* ------------------------------------------------------------ serial path
NoCall ==
    [fn |-> "none", n_samples |-> 0, seed |-> 0, error |-> NoError,
     returned |-> FALSE, option_price |-> NoValue, standard_error |-> NoValue,
     draws |-> 0, rng_before |-> Unseeded,
     Z_positive |-> NoValue, Z_negative |-> NoValue, payoffs |-> NoValue,
     call |-> 0]

NoCli ==
    [ran |-> FALSE, antithetic |-> FALSE, n_samples |-> 0, seed |-> 0,
     warned |-> FALSE]

NoAvs ==
    [called |-> FALSE, n_pairs |-> 0, seed |-> None, rng_before |-> Unseeded,
     Z_positive |-> NoValue, Z_negative |-> NoValue, call |-> 0]

SerialPrice(disc, payoffs) == <<disc * Sum(payoffs), Len(payoffs)>>

\* (discount * np.std(payoffs, ddof=1) / sqrt(n))^2
SerialStdErrSq(disc, payoffs) ==
    LET n == Len(payoffs)
        s == Sum(payoffs)
        q == Sum(Squares(payoffs))
    IN <<disc * disc * (n * q - s * s), n * n * (n - 1)>>

\* Variant: the second array is drawn afresh instead of negating the first.
AntitheticVariatesSamplesRedrawn(g, n_pairs, sd) ==
    LET g0 == IF sd # None THEN NpRandomSeed(g, sd) ELSE g
    IN [rng |-> Advance(g0, 2 * n_pairs),
        Z_positive |-> Draw(g0, n_pairs),
        Z_negative |-> Draw(Advance(g0, n_pairs), n_pairs)]

\* antithetic_variates_samples(n_pairs, seed): the generator after the call
\* and the two arrays.
AntitheticVariatesSamples(g, n_pairs, sd) ==
    LET g0 == IF sd # None THEN NpRandomSeed(g, sd) ELSE g
        Zp == Draw(g0, n_pairs)
    IN [rng |-> Advance(g0, n_pairs),
        Z_positive |-> Zp,
        Z_negative |-> [i \in 1..n_pairs |-> -Zp[i]]]

\* Lines 66-94 of monte_carlo_european_call, entered with the generator in
\* state g: what it draws, computes and returns.
PlainEstimate(g, n, sd) ==
    LET g0 == NpRandomSeed(g, sd)
        Z == Draw(g0, n)
        p == Payoffs(S0, K, T, r, sigma, Z)
        disc == DiscountFactor(r, T)
    IN [rng |-> Advance(g0, n), draws |-> n,
        Z_positive |-> Z, Z_negative |-> NoValue, payoffs |-> p,
        option_price |-> SerialPrice(disc, p),
        standard_error |-> SerialStdErrSq(disc, p)]

\* Lines 132-160 of monte_carlo_european_call_antithetic, entered with the
\* generator in state g.
AntitheticEstimate(g, n, sd) ==
    LET g0 == NpRandomSeed(g, sd)
        n_pairs == n \div 2
        a == AntitheticVariatesSamples(g0, n_pairs, sd)
        all_payoffs == Payoffs(S0, K, T, r, sigma, a.Z_positive)
                           \o Payoffs(S0, K, T, r, sigma, a.Z_negative)
        disc == DiscountFactor(r, T)
    IN [rng |-> a.rng, draws |-> n_pairs,
        Z_positive |-> a.Z_positive, Z_negative |-> a.Z_negative,
        payoffs |-> all_payoffs,
        option_price |-> SerialPrice(disc, all_payoffs),
        standard_error |-> SerialStdErrSq(disc, all_payoffs)]

\* Variant: the generator is seeded before the assertions are evaluated.
EstimatorCallSeedFirst(fn, e, est, g, n, sd) ==
    IF e # NoError
    THEN [last |-> [NoCall EXCEPT !.fn = fn, !.n_samples = n, !.seed = sd,
                                  !.error = e, !.rng_before = g,
                                  !.call = calls + 1],
          rng |-> NpRandomSeed(g, sd)]
    ELSE [last |-> [fn |-> fn, n_samples |-> n, seed |-> sd, error |-> NoError,
                    returned |-> TRUE,
                    option_price |-> est.option_price,
                    standard_error |-> est.standard_error,
                    draws |-> est.draws, rng_before |-> g,
                    Z_positive |-> est.Z_positive, Z_negative |-> est.Z_negative,
                    payoffs |-> est.payoffs, call |-> calls + 1],
          rng |-> est.rng]

\* One call of an estimator from generator state g: the record of the call
\* and the generator state it leaves.  e is the assertion that failed, if any.
EstimatorCall(fn, e, est, g, n, sd) ==
    IF e # NoError
    THEN [last |-> [NoCall EXCEPT !.fn = fn, !.n_samples = n, !.seed = sd,
                                  !.error = e, !.rng_before = g,
                                  !.call = calls + 1],
          rng |-> g]
    ELSE [last |-> [fn |-> fn, n_samples |-> n, seed |-> sd, error |-> NoError,
                    returned |-> TRUE,
                    option_price |-> est.option_price,
                    standard_error |-> est.standard_error,
                    draws |-> est.draws, rng_before |-> g,
                    Z_positive |-> est.Z_positive, Z_negative |-> est.Z_negative,
                    payoffs |-> est.payoffs, call |-> calls + 1],
          rng |-> est.rng]

PlainCall(g, n, sd) ==
    EstimatorCall("monte_carlo_european_call",
                  FirstError(<<ValidateOptionParams(S0, K, T, r, sigma),
                               ValidateSamples(n)>>),
                  PlainEstimate(g, n, sd), g, n, sd)

AntitheticCall(g, n, sd) ==
    EstimatorCall("monte_carlo_european_call_antithetic",
                  FirstError(<<ValidateOptionParams(S0, K, T, r, sigma),
                               ValidateSamples(n), ValidateEven(n)>>),
                  AntitheticEstimate(g, n, sd), g, n, sd)

\* monte_carlo_european_call(S0, K, T, r, sigma, n, sd), called by a program
\* that imports the module.
MonteCarloEuropeanCall(n, sd) ==
    /\ program \in {"monte_carlo", "variance_reduction"}
    /\ ~cli.ran
    /\ calls < MaxCalls
    /\ calls' = calls + 1
    /\ LET c == PlainCall(rng[0], n, sd)
       IN /\ last' = c.last
          /\ rng' = [rng EXCEPT ![0] = c.rng]
    /\ UNCHANGED <<Arguments, crashed, variance_payoff, pc, error, MpiLocals, reduce_acc, reduce_in,
                   MpiGlobals, barrier_in, result, now, cli, avs>>

\* monte_carlo_european_call_antithetic(S0, K, T, r, sigma, n, sd), called by
\* a program that imports the module.
MonteCarloEuropeanCallAntithetic(n, sd) ==
    /\ program \in {"monte_carlo", "variance_reduction"}
    /\ ~cli.ran
    /\ calls < MaxCalls
    /\ calls' = calls + 1
    /\ LET c == AntitheticCall(rng[0], n, sd)
       IN /\ last' = c.last
          /\ rng' = [rng EXCEPT ![0] = c.rng]
    /\ UNCHANGED <<Arguments, crashed, variance_payoff, pc, error, MpiLocals, reduce_acc, reduce_in,
                   MpiGlobals, barrier_in, result, now, cli, avs>>

\* np.corrcoef(X, Y)[0, 1] = cov / sqrt(var_x * var_y), as <<sign of cov,
\* cov^2, var_x * var_y>>; NoValue stands for nan, which numpy returns when
\* a variance is zero (one element, or all elements equal).
Corrcoef(X, Y) ==
    LET n == Len(X)
        sx == Sum(X)
        sy == Sum(Y)
        cov == n * Sum([i \in 1..n |-> X[i] * Y[i]]) - sx * sy
        var_x == n * Sum(Squares(X)) - sx * sx
        var_y == n * Sum(Squares(Y)) - sy * sy
    IN IF var_x = 0 \/ var_y = 0
       THEN NoValue
       ELSE <<IF cov < 0 THEN -1 ELSE IF cov > 0 THEN 1 ELSE 0,
              cov * cov, var_x * var_y>>

\* antithetic_variates_samples(n_pairs, seed=sd) called directly, as the
\* module's own demonstration does; sd = None for a call without a seed.
AntitheticVariatesSamplesCall(n_pairs, sd, ent) ==
    /\ program = "variance_reduction"
    /\ calls < MaxCalls
    /\ calls' = calls + 1
    /\ LET g == IF sd # None THEN rng[0] ELSE SelfSeeded(rng[0], ent)
           a == AntitheticVariatesSamples(g, n_pairs, sd)
       IN /\ avs' = [called |-> TRUE, n_pairs |-> n_pairs, seed |-> sd,
                     rng_before |-> rng[0],
                     Z_positive |-> a.Z_positive, Z_negative |-> a.Z_negative,
                     call |-> calls + 1]
          /\ rng' = [rng EXCEPT ![0] = a.rng]
    /\ UNCHANGED <<Arguments, crashed, variance_payoff, pc, error, MpiLocals, reduce_acc, reduce_in,
                   MpiGlobals, barrier_in, result, now, last, cli>>

\* Variant: an odd count is rounded down.
AdjustSamplesDown(antithetic, n) ==
    IF antithetic /\ n % 2 # 0 THEN n - 1 ELSE n

\* main, lines 217-222: the count handed to the estimator.
AdjustSamples(antithetic, n) ==
    IF antithetic /\ n % 2 # 0 THEN n + 1 ELSE n

\* main, lines 220-221: whether the warning is printed.
Warns(antithetic, n) == antithetic /\ n % 2 # 0

\* python monte_carlo.py --n-samples n --seed sd [--antithetic]: main from
\* the parsed arguments to the return of the estimator it calls.
Main(antithetic, n, sd) ==
    /\ program = "monte_carlo"
    /\ ~cli.ran
    /\ calls = 0
    /\ calls' = calls + 1
    /\ cli' = [ran |-> TRUE, antithetic |-> antithetic, n_samples |-> n,
               seed |-> sd, warned |-> Warns(antithetic, n)]
    /\ LET c == IF antithetic
                THEN AntitheticCall(rng[0], AdjustSamples(antithetic, n), sd)
                ELSE PlainCall(rng[0], AdjustSamples(antithetic, n), sd)
       IN /\ last' = c.last
          /\ rng' = [rng EXCEPT ![0] = c.rng]
    /\ UNCHANGED <<Arguments, crashed, variance_payoff, pc, error, MpiLocals, reduce_acc, reduce_in,
                   MpiGlobals, barrier_in, result, now, avs>>

\* ------------------------------------------------------------ specification
Init ==
    /\ program \in {"mpi_monte_carlo", "monte_carlo", "variance_reduction"}
    /\ S0 \in S0Values
    /\ K \in KValues
    /\ T \in TValues
    /\ r \in RValues
    /\ sigma \in SigmaValues
    /\ \/ /\ program = "mpi_monte_carlo"
          /\ size \in 1..MaxWorkers
          /\ n_samples \in SampleCounts
          /\ seed \in Seeds
          /\ root_wanted \in 0..(size - 1)
          /\ pc = [k \in Ranks |-> "validate"]
       \/ /\ program = "variance_reduction"
          \* the option parameters play no part in the sampling
          /\ S0 = 2 /\ K = 1 /\ T = 1 /\ r = 1 /\ sigma = 1
          /\ size = 1
          /\ n_samples = 0
          /\ seed = 0
          /\ root_wanted = 0
          /\ pc = [k \in Ranks |-> "serial"]
       \/ /\ program = "monte_carlo"
          /\ size = 1
          /\ n_samples = 0
          /\ seed = 0
          /\ root_wanted = 0
          /\ pc = [k \in Ranks |-> "serial"]
    /\ error = [k \in Ranks |-> NoError]
    /\ crashed = {}
    /\ variance_payoff = [k \in Ranks |-> NoValue]
    /\ rng = [k \in Ranks |-> Unseeded]
    /\ start_time = [k \in Ranks |-> None]
    /\ elapsed_time = [k \in Ranks |-> None]
    /\ local_n = [k \in Ranks |-> None]
    /\ local_seed = [k \in Ranks |-> None]
    /\ local_payoffs = [k \in Ranks |-> NoValue]
    /\ local_sum = [k \in Ranks |-> None]
    /\ local_sum_sq = [k \in Ranks |-> None]
    /\ local_count = [k \in Ranks |-> None]
    /\ reduce_acc = [f \in Reductions |-> 0]
    /\ reduce_in = [f \in Reductions |-> {}]
    /\ global_sum = [k \in Ranks |-> None]
    /\ global_sum_sq = [k \in Ranks |-> None]
    /\ global_count = [k \in Ranks |-> None]
    /\ barrier_in = [b \in 1..2 |-> {}]
    /\ result = [k \in Ranks |-> NotReturned]
    /\ now = [k \in Ranks |-> 0]
    /\ calls = 0
    /\ last = NoCall
    /\ cli = NoCli
    /\ avs = NoAvs

Next ==
    \/ \E k \in Ranks : Validate(k)
    \/ \E k \in Ranks : BarrierOneExit(k)
    \/ \E k \in Ranks : Sample(k)
    \/ \E k \in Ranks : ReduceSum(k)
    \/ \E k \in Ranks : RootRecvSum(k)
    \/ \E k \in Ranks : ReduceSumSq(k)
    \/ \E k \in Ranks : RootRecvSumSq(k)
    \/ \E k \in Ranks : ReduceCount(k)
    \/ \E k \in Ranks : RootRecvCount(k)
    \/ \E k \in Ranks : BarrierTwoExit(k)
    \/ \E k \in Ranks : Finalize(k)
    \/ \E k \in Ranks : Crash(k)
    \/ \E n \in SampleCounts, sd \in Seeds : MonteCarloEuropeanCall(n, sd)
    \/ \E n \in SampleCounts, sd \in Seeds : MonteCarloEuropeanCallAntithetic(n, sd)
    \/ \E n_pairs \in PairCounts, sd \in Seeds \cup {None}, ent \in Seeds :
           AntitheticVariatesSamplesCall(n_pairs, sd, ent)
    \/ \E antithetic \in BOOLEAN, n \in SampleCounts, sd \in Seeds :
           Main(antithetic, n, sd)

Spec == Init /\ [][Next]_vars

\* The next statement of rank k's process, whichever it is.
RankStep(k) ==
    /\ k \in Ranks
    /\ \/ Validate(k) \/ BarrierOneExit(k) \/ Sample(k)
       \/ ReduceSum(k) \/ RootRecvSum(k)
       \/ ReduceSumSq(k) \/ RootRecvSumSq(k)
       \/ ReduceCount(k) \/ RootRecvCount(k)
       \/ BarrierTwoExit(k) \/ Finalize(k)

MpiInit == Init /\ program = "mpi_monte_carlo"

MpiNext == \E k \in Ranks : RankStep(k) \/ Crash(k)

\* A distributed run.  Every rank is an operating-system process of its
\* own: one that can execute its next statement eventually does.
FairSpec ==
    /\ MpiInit
    /\ [][MpiNext]_vars
    /\ \A k \in 0..(MaxWorkers - 1) : WF_vars(RankStep(k))

\* --------------------------------------------------------------- properties
Mpi == program = "mpi_monte_carlo"
AllSampled == Mpi /\ \A k \in Ranks : local_n[k] # None

\* C1: once every rank has computed its local_n, the local_n of ranks
\* 0..size-1 sum to exactly n_samples (n_samples >= size >= 1 holds of
\* every run that passed validation).
ShardSumInvariant ==
    AllSampled => /\ n_samples >= size /\ size >= 1
                  /\ SumOver(local_n, Ranks) = n_samples

\* C1 witness: a run of several ranks whose n_samples does not divide evenly.
ShardSumWitness ==
    AllSampled /\ size >= 2 /\ n_samples % size # 0

\* C2: rank k holds floor(n_samples/size)+1 samples if k < n_samples mod
\* size and floor(n_samples/size) otherwise; so the counts never increase
\* with the rank and any two differ by at most 1.
FloorDivisionShards ==
    Mpi => \A k \in Ranks : local_n[k] # None =>
        /\ (k < n_samples % size) => local_n[k] = (n_samples \div size) + 1
        /\ (k >= n_samples % size) => local_n[k] = n_samples \div size
        /\ \A j \in Ranks : (j < k /\ local_n[j] # None) =>
               /\ local_n[j] >= local_n[k]
               /\ local_n[j] - local_n[k] <= 1

\* C2 witness: a low rank holds one sample more than a higher rank.
FloorDivisionWitness ==
    Mpi /\ \E j, k \in Ranks :
        j < k /\ local_n[j] # None /\ local_n[k] # None /\ local_n[j] = local_n[k] + 1

\* C3 as stated: every rank seeds with seed + rank, distinct ranks use
\* distinct seeds, and a rank seeds with the unmodified base seed only if
\* it is rank 0 of a single-rank run.
SeedUnmodifiedOnlySingleWorker ==
    Mpi => \A k \in Ranks : local_seed[k] # None =>
        /\ local_seed[k] = seed + k
        /\ \A j \in Ranks : (j # k /\ local_seed[j] # None) => local_seed[j] # local_seed[k]
        /\ local_seed[k] = seed => (k = 0 /\ size = 1)

\* C3 amended: every rank seeds with seed + rank, distinct ranks use
\* distinct seeds, and the only rank that seeds with the unmodified base
\* seed is rank 0, which does so for every size.
SeedPerRank ==
    Mpi => \A k \in Ranks : local_seed[k] # None =>
        /\ local_seed[k] = seed + k
        /\ rng[k].seed = local_seed[k]
        /\ \A j \in Ranks : (j # k /\ local_seed[j] # None) => local_seed[j] # local_seed[k]
        /\ (local_seed[k] = seed) <=> (k = 0)

\* C3 witness: all ranks of a run of several ranks have seeded.
SeedPerRankWitness ==
    Mpi /\ size >= 2 /\ \A k \in Ranks : local_seed[k] # None /\ rng[k] # Unseeded


\* C4: no rank has started its timer, seeded its generator or drawn a
\* sample unless every one of the size ranks has entered the first barrier.
FirstBarrierBeforeSampling ==
    Mpi => \A k \in Ranks :
        (\/ start_time[k] # None
         \/ rng[k] # Unseeded
         \/ local_seed[k] # None
         \/ local_payoffs[k] # NoValue
         \/ pc[k] \notin {"validate", "barrier1", "failed"})
        => barrier_in[1] = Ranks

\* C4 witness: one rank has sampled while another, having entered the
\* first barrier, has not yet left it.
FirstBarrierWitness ==
    Mpi /\ \E j, k \in Ranks :
        /\ pc[j] = "barrier1" /\ start_time[j] = None
        /\ start_time[k] # None /\ local_payoffs[k] # NoValue /\ rng[k] # Unseeded

\* The PartialStatistics of rank k as the arguments of the run fix them.
PartialOf(k) ==
    LET p == Payoffs(S0, K, T, r, sigma,
                     Draw(Seeded(seed + k),
                          (n_samples \div size) + (IF k < n_samples % size THEN 1 ELSE 0)))
    IN [count |-> Len(p), sum |-> Sum(p), sum_sq |-> Sum(Squares(p))]

\* C5: what the root holds after each of the three reductions is the sum
\* of that field over the PartialStatistics of all ranks; the value is
\* fixed by the arguments alone, whatever the order of arrival.
ReductionIsSumOfPartials ==
    Mpi => \A k \in Ranks :
        /\ global_sum[k] # None =>
               /\ global_sum[k] = SumOver(local_sum, Ranks)
               /\ global_sum[k] = SumOver([j \in Ranks |-> PartialOf(j).sum], Ranks)
        /\ global_sum_sq[k] # None =>
               /\ global_sum_sq[k] = SumOver(local_sum_sq, Ranks)
               /\ global_sum_sq[k] = SumOver([j \in Ranks |-> PartialOf(j).sum_sq], Ranks)
        /\ global_count[k] # None =>
               /\ global_count[k] = SumOver(local_count, Ranks)
               /\ global_count[k] = SumOver([j \in Ranks |-> PartialOf(j).count], Ranks)

\* C5 witness: the root holds all three reduced values of a run in which
\* at least two ranks contributed different non-zero sums.
ReductionWitness ==
    Mpi /\ size >= 2 /\ global_sum[0] # None /\ global_sum_sq[0] # None
        /\ global_count[0] # None
        /\ \E j, k \in Ranks : local_sum[j] > 0 /\ local_sum[k] > 0 /\ local_sum[j] # local_sum[k]

\* A rank that has read its elapsed time or gone on to finalization implies
\* every rank has contributed to all three reductions and entered the
\* second barrier.
SecondBarrierState ==
    Mpi => \A k \in Ranks :
        (elapsed_time[k] # None \/ pc[k] \in {"finalize", "done"} \/ result[k].returned)
        => /\ barrier_in[2] = Ranks
           /\ \A f \in Reductions : reduce_in[f] = Ranks

\* The timer is started on leaving the first barrier and read once, on
\* leaving the second; what a rank returns is the value read there.
SecondBarrierStep ==
    \A k \in Ranks :
        /\ (start_time[k] = None /\ start_time'[k] # None) =>
               (pc[k] = "barrier1" /\ start_time'[k] = now[k])
        /\ start_time[k] # None => start_time'[k] = start_time[k]
        /\ (elapsed_time[k] = None /\ elapsed_time'[k] # None) =>
               (pc[k] = "barrier2" /\ elapsed_time'[k] = now[k] - start_time[k])
        /\ elapsed_time[k] # None => elapsed_time'[k] = elapsed_time[k]
        /\ (~result[k].returned /\ result'[k].returned) =>
               (result'[k].elapsed_time = elapsed_time[k] /\ elapsed_time[k] # None)

\* C6: no rank reads its elapsed time or goes on to finalization until
\* every rank has contributed to all three reductions and entered the
\* second barrier; elapsed_time spans leaving the first barrier to leaving
\* the second, and the root's finalization does not add to it.
SecondBarrierBeforeElapsed ==
    []SecondBarrierState /\ [][SecondBarrierStep]_vars

\* C6 witness: the root has returned, its elapsed time is shorter than the
\* time its clock shows since the timer started, and another rank has not
\* yet left the second barrier.
SecondBarrierWitness ==
    Mpi /\ size >= 2 /\ pc[0] = "done" /\ result[0].returned
        /\ result[0].elapsed_time = elapsed_time[0]
        /\ elapsed_time[0] < now[0] - start_time[0]
        /\ \E j \in Ranks : pc[j] = "barrier2" /\ elapsed_time[j] = None

\* C7: a rank that has returned holds a price and a standard error if it
\* is rank 0 and None for both otherwise; no rank that passed validation
\* raises; the reduced statistics are None on every rank but rank 0; and
\* when all ranks have returned exactly one of them holds a price.
OnlyRootFinalizes ==
    Mpi => /\ \A k \in Ranks :
                /\ pc[k] = "done" =>
                       /\ result[k].returned /\ result[k].rank = k
                       /\ (k = 0) => (result[k].option_price # NoValue
                                       /\ result[k].standard_error # NoValue)
                       /\ (k # 0) => (result[k].option_price = NoValue
                                       /\ result[k].standard_error = NoValue)
                /\ pc[k] = "failed" => error[k] \in ParamErrors \cup SampleErrors
                /\ pc[k] # "failed" => error[k] = NoError
                /\ (k # 0) => (global_sum[k] = None /\ global_sum_sq[k] = None
                                /\ global_count[k] = None)
           /\ (\A k \in Ranks : pc[k] = "done") =>
                  Cardinality({k \in Ranks : result[k].option_price # NoValue}) = 1

\* C7 witness: every rank of a run of several ranks has returned.
OnlyRootWitness ==
    Mpi /\ size >= 2 /\ \A k \in Ranks : pc[k] = "done" /\ result[k].returned

\* C8 as stated: the rank that receives the reduced statistics and returns
\* the price is the rank the caller designates.
RootIsCallerConfigured ==
    Mpi => \A k \in Ranks :
        (global_count[k] # None \/ result[k].option_price # NoValue) => k = root_wanted

\* C8 amended: the rank that receives the reduced statistics and returns
\* the price is rank 0, whatever the caller wants, n_samples, size and the
\* shard sizes are.
RootIsRankZero ==
    Mpi => \A k \in Ranks :
        (\/ global_sum[k] # None \/ global_sum_sq[k] # None \/ global_count[k] # None
         \/ result[k].option_price # NoValue) => k = 0

\* C8 witness: rank 0 has returned the price of a run with unequal shards
\* although the caller wanted another rank as root.
RootIsRankZeroWitness ==
    Mpi /\ size >= 2 /\ n_samples % size # 0 /\ root_wanted # 0
        /\ result[0].option_price # NoValue
        /\ \E j, k \in Ranks : local_n[j] # local_n[k]

\* The PricingParameters invariants of the run's parameters.
ParamsValid == S0 > 0 /\ K > 0 /\ T > 0 /\ r >= 0 /\ sigma > 0

\* C9: with a parameter outside its domain, no rank of the MPI run gets
\* past validation, enters a barrier, seeds, draws or returns, and every
\* serial estimator call raises a parameter error, returns nothing and
\* leaves the generator as it found it; with all parameters inside their
\* domains no parameter error is raised.
ParameterValidationFailsFast ==
    /\ Mpi => \A k \in Ranks :
           /\ ~ParamsValid =>
                  /\ pc[k] \in {"validate", "failed"}
                  /\ pc[k] = "failed" => error[k] \in ParamErrors
                  /\ rng[k] = Unseeded /\ local_payoffs[k] = NoValue
                  /\ ~result[k].returned /\ k \notin barrier_in[1]
           /\ ParamsValid => error[k] \notin ParamErrors
    /\ (program = "monte_carlo" /\ last.fn # "none") =>
           /\ ~ParamsValid =>
                  /\ last.error \in ParamErrors
                  /\ ~last.returned /\ last.option_price = NoValue
                  /\ last.standard_error = NoValue
                  /\ last.draws = 0 /\ rng[0] = last.rng_before
           /\ ParamsValid => last.error \notin ParamErrors

\* C9 witness: every rank of an MPI run whose only bad parameter is
\* sigma has failed validation.
ParameterValidationWitness ==
    Mpi /\ size >= 2 /\ S0 > 0 /\ K > 0 /\ T > 0 /\ r >= 0 /\ sigma <= 0
        /\ n_samples >= size
        /\ \A k \in Ranks : pc[k] = "failed" /\ error[k] = "sigma must be positive"

\* C10: n_samples <= 0 or n_samples < size keeps every rank of the MPI
\* run from passing validation; a serial call with n_samples <= 0, or an
\* antithetic call with an odd n_samples, raises, returns nothing and
\* leaves the generator as it found it.
SampleCountValidation ==
    /\ (Mpi /\ (n_samples <= 0 \/ n_samples < size)) => \A k \in Ranks :
           /\ pc[k] \in {"validate", "failed"}
           /\ (pc[k] = "failed" /\ ParamsValid) => error[k] \in SampleErrors
           /\ rng[k] = Unseeded /\ local_payoffs[k] = NoValue
           /\ ~result[k].returned /\ k \notin barrier_in[1]
    /\ (/\ program = "monte_carlo"
        /\ \/ (last.fn # "none" /\ last.n_samples <= 0)
           \/ (last.fn = "monte_carlo_european_call_antithetic"
               /\ last.n_samples % 2 # 0)) =>
           /\ last.error # NoError
           /\ ParamsValid => last.error \in SampleErrors
           /\ ~last.returned /\ last.option_price = NoValue
           /\ last.standard_error = NoValue
           /\ last.draws = 0 /\ rng[0] = last.rng_before

\* C10 witness: after a call that drew samples, an antithetic call with
\* valid parameters and an odd positive n_samples was rejected.
SampleCountWitness ==
    /\ program = "monte_carlo" /\ ParamsValid
    /\ last.fn = "monte_carlo_european_call_antithetic"
    /\ last.n_samples > 0 /\ last.n_samples % 2 = 1
    /\ last.error = "Number of samples must be even"
    /\ rng[0] # Unseeded /\ rng[0].pos > 0

\* A rank that can no longer reach the end of the function: its validation
\* raised, or its process died.
Aborted(k) == k \in crashed \/ pc[k] = "failed"

\* C11: the root holds a reduced statistic, and returns a price and a
\* standard error, only when every rank of the run has contributed to the
\* reduction concerned (all three for the returned result); and when any
\* rank failed validation or crashed before the second barrier, no rank has
\* returned anything.
NoPartialResult ==
    Mpi => /\ \A k \in Ranks :
                /\ global_sum[k] # None => reduce_in["sum"] = Ranks
                /\ global_sum_sq[k] # None => reduce_in["sum_sq"] = Ranks
                /\ global_count[k] # None => reduce_in["count"] = Ranks
                /\ result[k].option_price # NoValue =>
                       /\ \A f \in Reductions : reduce_in[f] = Ranks
                       /\ \A j \in Ranks : local_count[j] # None /\ ~Aborted(j)
                       /\ result[k].option_price =
                              MpiPrice(DiscountFactor(r, T),
                                       SumOver(local_sum, Ranks), n_samples)
           /\ (\E j \in Ranks : Aborted(j)) =>
                  \A k \in Ranks : ~result[k].returned /\ pc[k] # "done"

\* C11 witness: a rank of a run of several ranks died after contributing
\* to the first two reductions and before the third; the root holds the two
\* complete sums, waits in the third reduction and has not returned.
NoPartialResultWitness ==
    /\ Mpi /\ size >= 2 /\ crashed # {} /\ 0 \notin crashed
    /\ global_sum_sq[0] # None /\ pc[0] = "recv_count"
    /\ 0 \in reduce_in["count"] /\ reduce_in["count"] \cap crashed = {}
    /\ ~result[0].returned

\* The command-line run of the serial script has called its estimator.
MainRan == program = "monte_carlo" /\ cli.ran

\* C12: after main has called its estimator, the estimator was called with
\* the requested seed and, under --antithetic with an odd request, with the
\* request plus one and the warning printed; under --antithetic the count it
\* received is even, is the request or the request plus one, and is never
\* rejected for being odd; an even request, or a run without --antithetic,
\* reaches the estimator unchanged and without a warning.
OddCountRoundedUpOnce ==
    MainRan =>
        /\ last.fn = IF cli.antithetic
                     THEN "monte_carlo_european_call_antithetic"
                     ELSE "monte_carlo_european_call"
        /\ last.seed = cli.seed
        /\ (cli.antithetic /\ cli.n_samples % 2 # 0) =>
               (last.n_samples = cli.n_samples + 1 /\ cli.warned)
        /\ cli.antithetic =>
               /\ last.n_samples % 2 = 0
               /\ last.n_samples \in {cli.n_samples, cli.n_samples + 1}
               /\ last.error # ValidateEven(1)
        /\ (~cli.antithetic \/ cli.n_samples % 2 = 0) =>
               (last.n_samples = cli.n_samples /\ ~cli.warned)

\* C12 witness: main was asked for 3 samples with --antithetic, and the
\* antithetic estimator returned a price for 4.
OddCountWitness ==
    /\ MainRan /\ cli.antithetic /\ cli.n_samples = 3 /\ cli.warned
    /\ last.n_samples = 4 /\ last.returned /\ Len(last.payoffs) = 4

\* Z_negative is the termwise negation of Z_positive, both of length n_pairs.
Paired(Z_positive, Z_negative, n_pairs) ==
    /\ Len(Z_positive) = n_pairs
    /\ Len(Z_negative) = n_pairs
    /\ \A i \in 1..n_pairs : /\ Z_negative[i] = -Z_positive[i]
                              /\ Z_positive[i] + Z_negative[i] = 0

\* The antithetic estimator has returned a result.
AntitheticReturned ==
    /\ program = "monte_carlo"
    /\ last.fn = "monte_carlo_european_call_antithetic"
    /\ last.returned

\* C13: the two arrays a direct call of antithetic_variates_samples returned
\* have length n_pairs and negate each other termwise, whatever the seed
\* (or none) and the generator state it found; and a returned antithetic
\* estimate drew n_samples / 2 such pairs and priced a payoff batch of
\* exactly n_samples = 2 * n_pairs elements.
AntitheticPairing ==
    /\ (program = "variance_reduction" /\ avs.called) =>
           Paired(avs.Z_positive, avs.Z_negative, avs.n_pairs)
    /\ AntitheticReturned =>
           /\ Paired(last.Z_positive, last.Z_negative, last.n_samples \div 2)
           /\ Len(last.payoffs) = last.n_samples
           /\ Len(last.payoffs) = 2 * Len(last.Z_positive)
           /\ last.option_price[2] = last.n_samples

\* C13 witness: the antithetic estimator returned an estimate over two
\* pairs whose draws are not all zero.
AntitheticPairingWitness ==
    /\ AntitheticReturned /\ last.n_samples = 4
    /\ \E i \in 1..2 : last.Z_positive[i] # 0 /\ last.Z_negative[i] = -last.Z_positive[i]
    /\ Len(last.payoffs) = 4

\* The correlation c is -1.
IsMinusOne(c) == c # NoValue /\ c[1] = -1 /\ c[2] = c[3]

\* A direct call of antithetic_variates_samples for at least one pair has
\* returned.
PairsReturned == program = "variance_reduction" /\ avs.called /\ avs.n_pairs >= 1

\* The elements of Z are not all equal.
Varies(Z) == \E i, j \in 1..Len(Z) : Z[i] # Z[j]

\* C14 as stated: for every n_pairs >= 1 and every seed, a single pair and
\* all-equal draws included, the correlation of the arrays returned is -1.
CorrelationAlwaysMinusOne ==
    PairsReturned => IsMinusOne(Corrcoef(avs.Z_positive, avs.Z_negative))

\* C14: the correlation of the arrays returned is -1 when the n_pairs >= 2
\* draws are not all equal, and is undefined (nan) for a single pair and for
\* draws that are all equal.
CorrelationMinusOneWhenDefined ==
    PairsReturned =>
        IF Varies(avs.Z_positive)
        THEN avs.n_pairs >= 2
             /\ IsMinusOne(Corrcoef(avs.Z_positive, avs.Z_negative))
        ELSE Corrcoef(avs.Z_positive, avs.Z_negative) = NoValue

\* C14 witness: a call without a seed returned three pairs whose draws are
\* not all equal, with correlation -1.
CorrelationWitness ==
    /\ PairsReturned /\ avs.n_pairs = 3 /\ avs.seed = None
    /\ Varies(avs.Z_positive)
    /\ IsMinusOne(Corrcoef(avs.Z_positive, avs.Z_negative))

\* An estimator of the serial module has returned a result.
EstimatorReturned == program = "monte_carlo" /\ last.returned

\* What the most recent estimator call returns when the process-wide
\* generator has never been used.
FromFreshGenerator ==
    IF last.fn = "monte_carlo_european_call"
    THEN PlainEstimate(Unseeded, last.n_samples, last.seed)
    ELSE AntitheticEstimate(Unseeded, last.n_samples, last.seed)

\* C15: the price and the standard error an estimator returned are those
\* the same call returns from a never-used generator, whatever state earlier
\* estimator calls left the generator in; so they depend on the arguments
\* alone, and two calls with identical arguments return identical values.
SerialDeterminism ==
    EstimatorReturned =>
        /\ last.option_price = FromFreshGenerator.option_price
        /\ last.standard_error = FromFreshGenerator.standard_error
        /\ last.payoffs = FromFreshGenerator.payoffs

\* C15 witness: an estimator returned a non-zero price over several samples
\* after an earlier call had left the generator part-way through the stream
\* of another seed.
SerialDeterminismWitness ==
    /\ EstimatorReturned /\ calls = 2 /\ last.n_samples >= 2
    /\ last.rng_before.seed # None /\ last.rng_before.seed # last.seed
    /\ last.rng_before.pos > 0
    /\ last.option_price[1] > 0

\* The payoffs of ranks 0..m-1 gathered into one batch.
RECURSIVE Gathered(_)
Gathered(m) == IF m = 0 THEN <<>> ELSE Gathered(m - 1) \o local_payoffs[m - 1][1]

\* Two quotients <<numerator, denominator>> are the same number; a zero
\* denominator is nan, which equals nothing.
SameNumber(a, b) == a[2] # 0 /\ b[2] # 0 /\ a[1] * b[2] = b[1] * a[2]

\* The root of the distributed run has returned its result.
RootReturned == Mpi /\ result[0].returned

\* C16 as stated: the standard error the root returns is the one
\* monte_carlo_european_call computes for the same payoff batch (the same
\* count, sum and sum of squares).
StandardErrorUniform ==
    RootReturned =>
        /\ global_count[0] = Len(Gathered(size))
        /\ global_sum[0] = Sum(Gathered(size))
        /\ global_sum_sq[0] = Sum(Squares(Gathered(size)))
        /\ SameNumber(result[0].standard_error,
                      SerialStdErrSq(DiscountFactor(r, T), Gathered(size)))

\* What monte_carlo_european_call does with the arguments of the
\* distributed run.
SerialRun == PlainEstimate(Unseeded, n_samples, seed)

\* C17: in a run of one rank, the rank draws the samples and computes the
\* payoffs that monte_carlo_european_call draws and computes for the same
\* parameters, n_samples and seed, leaving the generator where that call
\* leaves it; the count, sum and sum of squares the root obtains are those
\* of the serial batch, and the price it returns is the serial price.
SingleWorkerEquivalence ==
    (Mpi /\ size = 1) =>
        /\ local_count[0] # None =>
               /\ local_n[0] = n_samples
               /\ local_seed[0] = seed
               /\ local_payoffs[0] = <<SerialRun.payoffs>>
               /\ rng[0] = SerialRun.rng
        /\ global_count[0] # None => global_count[0] = Len(SerialRun.payoffs)
        /\ global_sum[0] # None => global_sum[0] = Sum(SerialRun.payoffs)
        /\ global_sum_sq[0] # None =>
               global_sum_sq[0] = Sum(Squares(SerialRun.payoffs))
        /\ result[0].returned =>
               /\ SameNumber(result[0].option_price, SerialRun.option_price)
               /\ result[0].option_price = SerialRun.option_price

\* C17 witness: the only rank of a run returned a non-zero price over
\* several samples.
SingleWorkerWitness ==
    /\ Mpi /\ size = 1 /\ result[0].returned /\ n_samples >= 3
    /\ result[0].option_price[1] > 0
    /\ result[0].option_price = SerialRun.option_price

\* C18: the count the reduction hands any rank is n_samples and is
\* positive; the root reaches its finalization (the division by the global
\* count) only holding such a count, and the price and the standard error
\* it returns have a non-zero denominator.
ZeroCountUnreachable ==
    Mpi => \A k \in Ranks :
               /\ global_count[k] # None =>
                      (global_count[k] = n_samples /\ global_count[k] > 0)
               /\ (IsRoot(k) /\ pc[k] \in {"finalize", "done"}) =>
                      (global_count[k] = n_samples /\ n_samples >= size
                       /\ global_count[k] > 0)
               /\ result[k].option_price # NoValue =>
                      (result[k].option_price[2] > 0
                       /\ result[k].standard_error[2] > 0)
               /\ error[k] # "TypeError"

\* C18 witness: the root of a run with unequal shards is about to divide by
\* the global count, which is n_samples.
ZeroCountWitness ==
    /\ Mpi /\ size >= 2 /\ n_samples % size # 0
    /\ pc[0] = "finalize" /\ global_count[0] = n_samples

\* The quotient a is at most the quotient b, both with positive denominator.
AtMost(a, b) == a[2] > 0 /\ b[2] > 0 /\ a[1] * b[2] <= b[1] * a[2]

\* C19 as stated: the standard error a call of the antithetic estimator
\* returned is at most the one monte_carlo_european_call returns for the
\* same parameters, n_samples and seed.
AntitheticStandardErrorAtMostPlain ==
    AntitheticReturned =>
        AtMost(last.standard_error,
               PlainEstimate(Unseeded, last.n_samples, last.seed).standard_error)

\* Every rank has passed the assertions of a distributed run.
AllValidated == Mpi /\ \A k \in Ranks : pc[k] \notin {"validate", "failed"}

\* Every rank has returned, the root with a price and a standard error.
AllReturned ==
    /\ Mpi
    /\ \A k \in Ranks : pc[k] = "done" /\ result[k].returned
    /\ result[0].option_price # NoValue /\ result[0].standard_error # NoValue

\* C21: under fair scheduling, in a run whose ranks have all passed
\* validation either a rank dies or every rank eventually returns, the root
\* with a price and a standard error; so unless a rank dies no rank waits
\* forever at a barrier or in a reduction.
DistributedRunTerminates ==
    AllValidated ~> (AllReturned \/ crashed # {})

\* C21 witness: all ranks of a run of at least three ranks have returned
\* and none died.
TerminationWitness ==
    /\ AllReturned /\ size >= 3 /\ crashed = {}
    /\ \A k \in Ranks : elapsed_time[k] # None

\* C22: the ranks that have evaluated the assertions all had the same
\* outcome, the same assertion failing where one failed; so no rank has
\* entered the first barrier in a run in which a rank failed validation.
ValidationSymmetric ==
    Mpi => /\ \A j, k \in Ranks :
                (pc[j] # "validate" /\ pc[k] # "validate") =>
                    /\ (pc[j] = "failed") <=> (pc[k] = "failed")
                    /\ error[j] = error[k]
           /\ (\E j \in Ranks : pc[j] = "failed") =>
                  /\ barrier_in[1] = {}
                  /\ \A k \in Ranks : pc[k] \in {"validate", "failed"}

\* C22 witness: all ranks of a run of several ranks given fewer samples
\* than ranks failed the same assertion, and the first barrier is empty.
ValidationSymmetricWitness ==
    /\ Mpi /\ size >= 2 /\ n_samples >= 1 /\ n_samples < size
    /\ \A k \in Ranks : pc[k] = "failed" /\ error[k] = ValidateRanks(n_samples, size)
    /\ barrier_in[1] = {}

\* Which of the five collective calls, in program order, rank k has issued.
Issued(k) ==
    <<k \in barrier_in[1], k \in reduce_in["sum"], k \in reduce_in["sum_sq"],
      k \in reduce_in["count"], k \in barrier_in[2]>>

\* The number of collective calls a rank at the given statement has issued.
IssuedAt(at) ==
    CASE at \in {"validate", "failed"} -> 0
      [] at \in {"barrier1", "sample", "reduce_sum"} -> 1
      [] at \in {"recv_sum", "reduce_sum_sq"} -> 2
      [] at \in {"recv_sum_sq", "reduce_count"} -> 3
      [] at = "recv_count" -> 4
      [] OTHER -> 5

\* Every rank has issued a prefix of the one sequence of collectives, as
\* long as its statement says, whether it is the root or not.
CollectivesInOrder ==
    Mpi => \A k \in Ranks :
               /\ \A i \in 1..5 : Issued(k)[i] <=> (i <= IssuedAt(pc[k]))
               /\ pc[k] = "done" => \A i \in 1..5 : Issued(k)[i]

\* A step in which rank k samples, finalizes or leaves a barrier issues no
\* collective call for any rank.
NoCollectiveInBranches ==
    Mpi => \A k \in Ranks :
               (pc[k] \in {"barrier1", "sample", "barrier2", "finalize"}
                /\ pc'[k] # pc[k])
                   => (barrier_in' = barrier_in /\ reduce_in' = reduce_in)

\* C23: every rank, root or not, issues the collective calls Barrier,
\* reduce of the sum, reduce of the sum of squares, reduce of the count,
\* Barrier in this order, and the rank-dependent parts (shard size and
\* sampling, finalization) issue none.
CollectiveCallsMatch == []CollectivesInOrder /\ [][NoCollectiveInBranches]_vars

\* C23 witness: in a run with unequal shards the root and another rank
\* have both returned after issuing all five collective calls.
CollectiveCallsWitness ==
    /\ Mpi /\ size >= 2 /\ n_samples % size # 0
    /\ pc[0] = "done" /\ pc[1] = "done"
    /\ \A i \in 1..5 : Issued(0)[i] /\ Issued(1)[i]
    /\ local_n[0] # local_n[1]

\* C24: every rank that has computed its share of a validated run holds a
\* local_n of at least 1, and its payoff batch is not empty.
NoEmptyShard ==
    Mpi => \A k \in Ranks :
               /\ local_n[k] # None =>
                      /\ n_samples >= size
                      /\ local_n[k] >= 1
                      /\ Len(local_payoffs[k][1]) >= 1
                      /\ local_count[k] >= 1

\* C24 witness: a run of several ranks with exactly one sample per rank.
NoEmptyShardWitness ==
    /\ Mpi /\ size >= 2 /\ n_samples = size
    /\ \A k \in Ranks : local_n[k] = 1

\* The state rank k owns during sampling.
LocalState(k) ==
    <<local_n[k], local_seed[k], local_payoffs[k], local_sum[k],
      local_sum_sq[k], local_count[k], rng[k]>>

\* The state the ranks share through the communicator, and what they return.
SharedState == <<reduce_acc, reduce_in, barrier_in, MpiGlobals, result>>

\* What rank k holds is what the arguments of the run and k fix.
PartialIsOwn ==
    Mpi => \A k \in Ranks :
               IF local_count[k] = None
               THEN LocalState(k) = <<None, None, NoValue, None, None, None, Unseeded>>
               ELSE /\ local_count[k] = PartialOf(k).count
                    /\ local_sum[k] = PartialOf(k).sum
                    /\ local_sum_sq[k] = PartialOf(k).sum_sq
                    /\ local_seed[k] = seed + k
                    /\ rng[k] = [seed |-> seed + k, pos |-> PartialOf(k).count]

\* The sampling state of rank k changes only in rank k's own sampling step,
\* which changes neither another rank's sampling state nor the shared state.
SamplingStepIsLocal ==
    Mpi => \A k \in Ranks :
               (LocalState(k)' # LocalState(k)) =>
                   /\ pc[k] = "sample" /\ pc'[k] = "reduce_sum"
                   /\ \A j \in Ranks \ {k} :
                          LocalState(j)' = LocalState(j) /\ pc'[j] = pc[j]
                   /\ SharedState' = SharedState

\* C25: the PartialStatistics a rank holds are a function of the option
\* parameters, n_samples, size, seed and its own rank, in every interleaving;
\* and a rank's sampling step writes that rank's own state only, while no
\* step of another rank changes it.
WorkerIndependence == []PartialIsOwn /\ [][SamplingStepIsLocal]_vars

\* C25 witness: a rank other than the root has sampled a non-zero sum
\* after another rank had already contributed to the first reduction, while
\* a third has not sampled yet.
WorkerIndependenceWitness ==
    /\ Mpi /\ size >= 3
    /\ \E k \in Ranks \ {0} :
           /\ local_count[k] # None /\ local_sum[k] > 0 /\ pc[k] = "reduce_sum"
           /\ reduce_in["sum"] # {}
           /\ \E j \in Ranks : local_count[j] = None

\* The raw payoffs max(S_T - K, 0) of the draws of rank k.
RawPayoffs(k) ==
    LET Z == Draw(Seeded(seed + k),
                  (n_samples \div size) + (IF k < n_samples % size THEN 1 ELSE 0))
    IN [i \in 1..Len(Z) |-> Max(TerminalPrice(S0, T, r, sigma, Z[i]) - ExpHalf(0) * K, 0)]

\* C26: the count of a rank's PartialStatistics is the length of its payoff
\* batch (its local_n), its sum and sum of squares are taken over the raw
\* payoffs; what the reductions accumulate and hand to the root is raw too;
\* and the price and standard error the root returns carry the discount
\* factor exactly once, applied to the reduced sums.
DiscountOnceAtRoot ==
    Mpi =>
        /\ \A k \in Ranks :
               local_count[k] # None =>
                   /\ local_payoffs[k] = <<RawPayoffs(k)>>
                   /\ local_count[k] = Len(local_payoffs[k][1])
                   /\ local_count[k] = local_n[k]
                   /\ local_sum[k] = Sum(RawPayoffs(k))
                   /\ local_sum_sq[k] = Sum(Squares(RawPayoffs(k)))
        /\ reduce_acc["sum"] =
               SumOver([k \in Ranks |-> Sum(RawPayoffs(k))], reduce_in["sum"])
        /\ reduce_acc["sum_sq"] =
               SumOver([k \in Ranks |-> Sum(Squares(RawPayoffs(k)))], reduce_in["sum_sq"])
        /\ \A k \in Ranks :
               result[k].option_price # NoValue =>
                   LET gs == SumOver([j \in Ranks |-> Sum(RawPayoffs(j))], Ranks)
                       gq == SumOver([j \in Ranks |-> Sum(Squares(RawPayoffs(j)))], Ranks)
                       disc == ExpHalf(-2 * r * T)
                   IN /\ IsRoot(k)
                      /\ global_sum[k] = gs /\ global_sum_sq[k] = gq
                      /\ result[k].option_price = <<disc * gs, n_samples>>
                      /\ result[k].standard_error =
                             <<disc * disc * (n_samples * gq - gs * gs),
                               n_samples * n_samples * n_samples>>

\* C26 witness: the root of a run of several ranks with a positive rate
\* (a discount factor other than 1) has returned a non-zero price.
DiscountOnceWitness ==
    /\ Mpi /\ size >= 2 /\ r > 0 /\ ExpHalf(-2 * r * T) # ExpHalf(0)
    /\ result[0].returned /\ result[0].option_price[1] > 0
    /\ global_sum[0] * ExpHalf(-2 * r * T) = result[0].option_price[1]

\* A call of antithetic_variates_samples without a seed came directly after
\* an estimator call in the same process.
UnseededSamplingAfterEstimator ==
    /\ program = "variance_reduction"
    /\ last.fn # "none" /\ avs.called /\ avs.seed = None
    /\ avs.call = last.call + 1

\* C27 as stated: the draws a call of antithetic_variates_samples without a
\* seed obtains after an estimator call are draws it could have obtained
\* from the generator as the estimator call found it, i.e. had the
\* estimator call not run.
EstimatorLeavesLaterDrawsUnchanged ==
    UnseededSamplingAfterEstimator =>
        \E ent \in Seeds :
            avs.Z_positive =
                AntitheticVariatesSamples(SelfSeeded(last.rng_before, ent),
                                          avs.n_pairs, None).Z_positive

\* The most recent operation of the serial process was an estimator call
\* that raised.
EstimatorRaised ==
    /\ program \in {"monte_carlo", "variance_reduction"}
    /\ last.fn # "none" /\ last.error # NoError /\ last.call = calls

\* C28: after an estimator call that raised on its parameters or its
\* sample count, the process-wide generator is in the state the call found
\* it in and nothing was drawn or returned; a rank of a distributed run that
\* raised has an untouched generator and has entered no barrier and no
\* reduction.
FailedValidationLeavesGenerator ==
    /\ EstimatorRaised =>
           /\ rng[0] = last.rng_before
           /\ last.draws = 0 /\ last.payoffs = NoValue
           /\ ~last.returned
    /\ Mpi => \A k \in Ranks :
           pc[k] = "failed" =>
               /\ rng[k] = Unseeded /\ local_seed[k] = None
               /\ k \notin barrier_in[1] /\ k \notin barrier_in[2]
               /\ \A f \in Reductions : k \notin reduce_in[f]

\* C28 witness: an estimator call with a seed of its own raised after an
\* earlier call had left the generator part-way through another stream.
FailedValidationWitness ==
    /\ EstimatorRaised /\ last.call = 2
    /\ last.rng_before.seed # None /\ last.rng_before.pos > 0
    /\ last.seed # last.rng_before.seed
    /\ rng[0] = last.rng_before

\* C29: the positive draws of a returned antithetic estimate are the first
\* n_samples / 2 draws monte_carlo_european_call makes with the same seed
\* and n_samples, and the generator is left n_samples / 2 draws into that
\* stream: seeding twice neither skips nor repeats a draw.
SharedStreamPrefix ==
    AntitheticReturned =>
        LET plain == Draw(Seeded(last.seed), last.n_samples)
            n_pairs == last.n_samples \div 2
        IN /\ Len(last.Z_positive) = n_pairs
           /\ \A i \in 1..n_pairs : last.Z_positive[i] = plain[i]
           /\ last.draws = n_pairs
           /\ last.call = calls => rng[0] = [seed |-> last.seed, pos |-> n_pairs]

\* C29 witness: an antithetic estimate over two pairs whose positive draws
\* differ, returned from a generator an earlier call had left in the same
\* stream.
SharedStreamWitness ==
    /\ AntitheticReturned /\ last.n_samples = 4 /\ last.call = 2
    /\ last.Z_positive[1] # last.Z_positive[2]
    /\ last.rng_before.seed = last.seed /\ last.rng_before.pos > 0

\* C30 as stated: for the statistics the root has reduced,
\* count * sum_sq - sum^2 >= 0 and the variance_payoff the root computes
\* from them, whose square root it takes, is not negative.
VarianceNeverNegative ==
    Mpi => \A k \in Ranks :
               variance_payoff[k] # NoValue =>
                   /\ global_count[k] * global_sum_sq[k]
                          - global_sum[k] * global_sum[k] >= 0
                   /\ variance_payoff[k][1] >= 0

====
